---- MODULE Spec2Model ----
(***************************************************************************)
(* A model of app/data.py: the import-time construction of the spaCy       *)
(* pipeline, the four dataset loaders with their dispatcher load_data, and *)
(* tokenize/_lemmatize.                                                     *)
(*                                                                         *)
(* Python strings that the code takes apart (amazonreviews lines, lemmas)  *)
(* are sequences of one-character strings; strings the code only carries   *)
(* around (CSV text cells, paths, URLs, message fragments) are TLA+        *)
(* strings.  A CSV file is the sequence of rows pandas parses out of it.   *)
(***************************************************************************)
EXTENDS Integers, Sequences, FiniteSets, TLC

VARIABLES
    disk,       \* path -> [exists, data]: the dataset files
    model,      \* the spaCy model en_core_web_sm on this machine
    pc,         \* position of the module import (lines 27-35), then "ready"
    nlp,        \* the module global nlp
    loads,      \* calls of spacy.load made so far
    fetches,    \* calls of spacy_download made so far
    call,       \* the last call made into the module
    result,     \* what that call returned or raised
    trace,      \* the functions entered and file operations made by that call
    job         \* a tokenize call in progress (nlp.pipe being consumed)

vars == <<disk, model, pc, nlp, loads, fetches, call, result, trace, job>>

(***************************************************************************)
(* Bounds of the model.                                                    *)
(***************************************************************************)
MaxDiskRows == 2    \* records on disk, over all dataset files
MaxDocs == 2        \* texts handed to one tokenize call
MaxBatch == 2       \* largest batch_size tried
MaxJobs == 2        \* largest n_jobs tried

(***************************************************************************)
(* app.constants                                                           *)
(***************************************************************************)
SENTIMENT140_PATH == "data/sentiment140.csv"
SENTIMENT140_URL == "url:sentiment140"
AMAZONREVIEWS_PATH == "data/amazonreviews.bz2"
AMAZONREVIEWS_URL == "url:amazonreviews"
IMDB50K_PATH == "data/imdb50k.csv"
IMDB50K_URL == "url:imdb50k"
TEST_DATASET_PATH == "data/test.csv"
TEST_DATASET_URL == "url:test"

Paths == {SENTIMENT140_PATH, AMAZONREVIEWS_PATH, IMDB50K_PATH, TEST_DATASET_PATH}

(***************************************************************************)
(* Python strings as character sequences.                                  *)
(***************************************************************************)
Whitespace == {" ", "\n", "\t"}
Digits == {"0", "1", "2", "3", "4", "5", "6", "7", "8", "9"}

DigitValue(c) ==
    CASE c = "0" -> 0 [] c = "1" -> 1 [] c = "2" -> 2 [] c = "3" -> 3
      [] c = "4" -> 4 [] c = "5" -> 5 [] c = "6" -> 6 [] c = "7" -> 7
      [] c = "8" -> 8 [] c = "9" -> 9

\* s[from..] starts with sep
StartsAt(s, sep, from) ==
    /\ from + Len(sep) - 1 <= Len(s)
    /\ \A k \in 1..Len(sep) : s[from + k - 1] = sep[k]

\* str.find(sep, from): the first index >= from where sep occurs, 0 if none
Find(s, sep, from) ==
    LET hits == {i \in from..Len(s) : StartsAt(s, sep, i)}
    IN IF hits = {} THEN 0 ELSE CHOOSE i \in hits : \A j \in hits : i <= j

\* str.split(sep, 1): one or two pieces
SplitOnce(s, sep) ==
    LET i == Find(s, sep, 1)
    IN IF i = 0 THEN <<s>>
       ELSE <<SubSeq(s, 1, i - 1), SubSeq(s, i + Len(sep), Len(s))>>

\* str.split(sep): every piece
RECURSIVE Split(_, _)
Split(s, sep) ==
    LET i == Find(s, sep, 1)
    IN IF i = 0 THEN <<s>>
       ELSE <<SubSeq(s, 1, i - 1)>> \o Split(SubSeq(s, i + Len(sep), Len(s)), sep)

\* str.strip()
Strip(s) ==
    LET keep == {i \in 1..Len(s) : s[i] \notin Whitespace}
    IN IF keep = {} THEN <<>>
       ELSE SubSeq(s, CHOOSE i \in keep : \A j \in keep : i <= j,
                      CHOOSE i \in keep : \A j \in keep : i >= j)

\* str.lower() on the letters the model uses
LowerChar(c) ==
    CASE c = "A" -> "a" [] c = "C" -> "c" [] c = "G" -> "g" [] c = "V" -> "v"
      [] OTHER -> c

Lower(s) == [i \in 1..Len(s) |-> LowerChar(s[i])]

\* int(s) accepts: surrounding whitespace, a sign, digits, single underscores
\* between digits
IntBody(s) ==
    LET t == Strip(s)
    IN IF t # <<>> /\ t[1] \in {"+", "-"} THEN Tail(t) ELSE t

IntValid(s) ==
    LET b == IntBody(s)
    IN /\ b # <<>>
       /\ b[1] \in Digits
       /\ b[Len(b)] \in Digits
       /\ \A i \in 1..Len(b) : b[i] \in Digits \cup {"_"}
       /\ \A i \in 1..(Len(b) - 1) : ~(b[i] = "_" /\ b[i + 1] = "_")

RECURSIVE DigitsValue(_)
DigitsValue(b) ==
    IF b = <<>> THEN 0
    ELSE IF b[Len(b)] = "_" THEN DigitsValue(SubSeq(b, 1, Len(b) - 1))
    ELSE 10 * DigitsValue(SubSeq(b, 1, Len(b) - 1)) + DigitValue(b[Len(b)])

IntOf(s) ==
    LET t == Strip(s)
    IN IF t[1] = "-" THEN 0 - DigitsValue(IntBody(s)) ELSE DigitsValue(IntBody(s))

\* iterating a binary file: the lines, each keeping its terminator
RECURSIVE FileLines(_)
FileLines(bytes) ==
    IF bytes = <<>> THEN <<>>
    ELSE LET i == Find(bytes, <<"\n">>, 1)
         IN IF i = 0 THEN <<bytes>>
            ELSE <<SubSeq(bytes, 1, i)>> \o FileLines(SubSeq(bytes, i + 1, Len(bytes)))

(***************************************************************************)
(* Values a call produces.                                                 *)
(***************************************************************************)
NoResult ==
    [kind |-> "none", exc |-> "", msg |-> <<>>, texts |-> <<>>, labels |-> <<>>,
     tokens |-> <<>>]

\* a loader's (texts, labels)
Return(texts, labels) ==
    [kind |-> "return", exc |-> "", msg |-> <<>>, texts |-> texts, labels |-> labels,
     tokens |-> <<>>]

\* tokenize's list of token lists
ReturnTokens(tokens) ==
    [kind |-> "return", exc |-> "", msg |-> <<>>, texts |-> <<>>, labels |-> <<>>,
     tokens |-> tokens]

\* msg: the fragments the f-string joins
Raise(exc, msg) ==
    [kind |-> "raise", exc |-> exc, msg |-> msg, texts |-> <<>>, labels |-> <<>>,
     tokens |-> <<>>]

\* list elements that Series.tolist() gives: Python ints, floats, nan
PyInt(n) == [t |-> "int", v |-> n]
PyFloat(n) == [t |-> "float", v |-> n]
NaN == [t |-> "nan", v |-> 0]

Ev(op, what) == <<op, what>>

\* Series.map(dict).tolist(): a value that is no key becomes NaN, and a
\* column holding a NaN is a float column
SeriesMap(values, table) ==
    LET hole == \E i \in 1..Len(values) : values[i] \notin DOMAIN table
    IN [i \in 1..Len(values) |->
          IF values[i] \notin DOMAIN table THEN NaN
          ELSE IF hole THEN PyFloat(table[values[i]])
          ELSE PyInt(table[values[i]])]

Column(rows, name) == [i \in 1..Len(rows) |-> rows[i][name]]

(***************************************************************************)
(* load_sentiment140                                                       *)
(***************************************************************************)
Sentiment140Map == (0 :> 0 @@ 4 :> 1 @@ 2 :> 2)

IsNotNeutral140(row) == row["target"] # 2

\* A filter that drops the neutral targets and leaves the text column as it was.
Filter140Misaligned(rows, include_neutral) ==
    IF include_neutral THEN rows
    ELSE [i \in 1..Len(SelectSeq(rows, IsNotNeutral140)) |->
            [target |-> SelectSeq(rows, IsNotNeutral140)[i]["target"],
             text |-> rows[i]["text"]]]

\* A filter that never drops a row.
Filter140KeepsAll(rows, include_neutral) == rows

\* data = data[data["target"] != 2] when include_neutral is false
Filter140(rows, include_neutral) ==
    IF include_neutral THEN rows ELSE SelectSeq(rows, IsNotNeutral140)

\* the message of the FileNotFoundError: the fragments the f-string joins
Sentiment140NotFound ==
    <<"Sentiment140 dataset not found at: '", SENTIMENT140_PATH,
      "'\nPlease download the dataset from:\n", SENTIMENT140_URL>>

load_sentiment140(d, include_neutral) ==
    IF ~d[SENTIMENT140_PATH].exists
    THEN [trace |-> <<Ev("call", "load_sentiment140"), Ev("exists", SENTIMENT140_PATH)>>,
          out |-> Raise("FileNotFoundError", Sentiment140NotFound)]
    ELSE LET data == Filter140(d[SENTIMENT140_PATH].data, include_neutral)
         IN [trace |-> <<Ev("call", "load_sentiment140"), Ev("exists", SENTIMENT140_PATH),
                         Ev("read", SENTIMENT140_PATH)>>,
             out |-> Return(Column(data, "text"),
                            SeriesMap(Column(data, "target"), Sentiment140Map))]

(***************************************************************************)
(* load_amazonreviews                                                      *)
(***************************************************************************)
LabelPrefix == <<"_", "_", "l", "a", "b", "e", "l", "_", "_">>

\* int(label.split("__label__")[1]) - 1 for one label: the exception it
\* raises, or "" when it yields a number
SentimentError(label) ==
    IF Len(Split(label, LabelPrefix)) < 2 THEN "IndexError"
    ELSE IF ~IntValid(Split(label, LabelPrefix)[2]) THEN "ValueError"
    ELSE ""

SentimentOf(label) == IntOf(Split(label, LabelPrefix)[2]) - 1

\* line.split(" ", 1) for line in dataset
AmazonRows(dataset) == [i \in 1..Len(dataset) |-> SplitOnce(dataset[i], <<" ">>)]

\* labels, texts = zip(*rows): zip stops at the shortest row, and the
\* unpacking needs exactly two tuples
UnzipFails(rows) == rows = <<>> \/ \E i \in 1..Len(rows) : Len(rows[i]) < 2

\* A message that leaves the URL out.
AmazonreviewsNotFoundNoUrl ==
    <<"Amazonreviews dataset not found at: '", AMAZONREVIEWS_PATH, "'">>

\* the message of the FileNotFoundError: the fragments the f-string joins
AmazonreviewsNotFound ==
    <<"Amazonreviews dataset not found at: '", AMAZONREVIEWS_PATH,
      "'\nPlease download the dataset from:\n", AMAZONREVIEWS_URL>>

load_amazonreviews(d) ==
    IF ~d[AMAZONREVIEWS_PATH].exists
    THEN [trace |-> <<Ev("call", "load_amazonreviews"), Ev("exists", AMAZONREVIEWS_PATH)>>,
          out |-> Raise("FileNotFoundError", AmazonreviewsNotFound)]
    ELSE LET dataset == FileLines(d[AMAZONREVIEWS_PATH].data)
             rows == AmazonRows(dataset)
             labels == [i \in 1..Len(rows) |-> rows[i][1]]
             texts == [i \in 1..Len(rows) |-> rows[i][2]]
             bad == {i \in 1..Len(rows) : SentimentError(labels[i]) # ""}
             first == CHOOSE i \in bad : \A j \in bad : i <= j
         IN [trace |-> <<Ev("call", "load_amazonreviews"), Ev("exists", AMAZONREVIEWS_PATH),
                         Ev("read", AMAZONREVIEWS_PATH)>>,
             out |-> IF UnzipFails(rows)
                     THEN Raise("ValueError", <<"not enough values to unpack">>)
                     ELSE IF bad # {}
                     THEN Raise(SentimentError(labels[first]), <<>>)
                     ELSE Return(texts,
                                 [i \in 1..Len(rows) |-> PyInt(SentimentOf(labels[i]))])]

(***************************************************************************)
(* load_imdb50k                                                            *)
(***************************************************************************)
Imdb50kMap == ("positive" :> 1 @@ "negative" :> 0)

\* the message of the FileNotFoundError: the fragments the f-string joins
Imdb50kNotFound ==
    <<"IMDB50K dataset not found at: '", IMDB50K_PATH,
      "'\nPlease download the dataset from:\n", IMDB50K_URL>>

load_imdb50k(d) ==
    IF ~d[IMDB50K_PATH].exists
    THEN [trace |-> <<Ev("call", "load_imdb50k"), Ev("exists", IMDB50K_PATH)>>,
          out |-> Raise("FileNotFoundError", Imdb50kNotFound)]
    ELSE LET data == d[IMDB50K_PATH].data
         IN [trace |-> <<Ev("call", "load_imdb50k"), Ev("exists", IMDB50K_PATH),
                         Ev("read", IMDB50K_PATH)>>,
             out |-> Return(Column(data, "review"),
                            SeriesMap(Column(data, "sentiment"), Imdb50kMap))]

(***************************************************************************)
(* load_test                                                               *)
(***************************************************************************)
TestMap == (0 :> 0 @@ 1 :> 1 @@ 2 :> 2)

IsNotNeutralTest(row) == row["label"] # 1

\* data = data[data["label"] != 1] when include_neutral is false
FilterTest(rows, include_neutral) ==
    IF include_neutral THEN rows ELSE SelectSeq(rows, IsNotNeutralTest)

\* the message of the FileNotFoundError: the fragments the f-string joins
TestNotFound ==
    <<"Test dataset not found at: '", TEST_DATASET_PATH,
      "'\nPlease download the dataset from:\n", TEST_DATASET_URL>>

load_test(d, include_neutral) ==
    IF ~d[TEST_DATASET_PATH].exists
    THEN [trace |-> <<Ev("call", "load_test"), Ev("exists", TEST_DATASET_PATH)>>,
          out |-> Raise("FileNotFoundError", TestNotFound)]
    ELSE LET data == FilterTest(d[TEST_DATASET_PATH].data, include_neutral)
         IN [trace |-> <<Ev("call", "load_test"), Ev("exists", TEST_DATASET_PATH),
                         Ev("read", TEST_DATASET_PATH)>>,
             out |-> Return(Column(data, "text"),
                            SeriesMap(Column(data, "label"), TestMap))]

(***************************************************************************)
(* load_data                                                               *)
(***************************************************************************)
Entered(fn, inner) == [trace |-> <<Ev("call", fn)>> \o inner.trace, out |-> inner.out]

\* A dispatch whose last arm takes every other identifier.
load_dataFallsThrough(d, dataset) ==
    CASE dataset = "sentiment140" -> Entered("load_data", load_sentiment140(d, FALSE))
      [] dataset = "amazonreviews" -> Entered("load_data", load_amazonreviews(d))
      [] dataset = "imdb50k" -> Entered("load_data", load_imdb50k(d))
      [] OTHER -> Entered("load_data", load_test(d, FALSE))

load_data(d, dataset) ==
    CASE dataset = "sentiment140" -> Entered("load_data", load_sentiment140(d, FALSE))
      [] dataset = "amazonreviews" -> Entered("load_data", load_amazonreviews(d))
      [] dataset = "imdb50k" -> Entered("load_data", load_imdb50k(d))
      [] dataset = "test" -> Entered("load_data", load_test(d, FALSE))
      [] OTHER -> [trace |-> <<Ev("call", "load_data")>>,
                   out |-> Raise("ValueError", <<"Unknown dataset: ", dataset>>)]

(***************************************************************************)
(* The module-level pipeline, lines 27-35.                                 *)
(***************************************************************************)
None == [name |-> "", disable |-> {}]

\* spacy.load("en_core_web_sm", disable=["tok2vec", "parser", "ner"])
Pipeline == [name |-> "en_core_web_sm", disable |-> {"tok2vec", "parser", "ner"}]

\* spacy.load returns the pipeline of a model it can load; it raises OSError
\* for a model that is absent or that this process cannot find, and another
\* error for a model that does not fit the installed spaCy
LoadSucceeds(m) == m = "loadable"

LoadRaisesOSError(m) == m \in {"absent", "broken"}

\* where the import goes when the load of line 28 raises another error than
\* OSError: nothing catches it
AfterFirstLoadError == "failed"

\* where the import goes when the load of line 28 raises OSError
AfterFirstLoadFailure == "except"

\* An import that goes on after the load of line 35 has raised.
AfterReloadFailureSwallowed == "ready"

\* where the import goes when the load of line 35 raises: nothing catches it
AfterReloadFailure == "failed"

\* where the import goes when spacy_download fails: nothing catches it
AfterDownloadFailure == "failed"

(***************************************************************************)
(* _lemmatize and tokenize                                                 *)
(***************************************************************************)
Token(lemma, kind) ==
    [lemma |-> lemma, is_stop |-> kind = "stop", is_punct |-> kind = "punct",
     like_email |-> kind = "email", like_url |-> kind = "url", like_num |-> kind = "num"]

\* The values of character_threshold tokenize is tried with: the default
\* and the next.
Thresholds == {2, 3}

\* The texts tokenize is tried on.
TextPool == {"Visit https://a.io, me@x.com, I have 42 Cats!", "Go\n\nA", ""}

\* The Doc spaCy's pipeline yields for a text of the pool: its tokens, each
\* with its lemma_ and the flags _lemmatize reads.  A run of line breaks is a
\* token of its own whose lemma is the run itself.
Annotate(text) ==
    CASE text = "Visit https://a.io, me@x.com, I have 42 Cats!" ->
           <<Token(<<"V", "i", "s", "i", "t">>, "word"),
             Token(<<"h", "t", "t", "p", "s", ":", "/", "/", "a", ".", "i", "o">>, "url"),
             Token(<<",">>, "punct"),
             Token(<<"m", "e", "@", "x", ".", "c", "o", "m">>, "email"),
             Token(<<",">>, "punct"),
             Token(<<"I">>, "stop"),
             Token(<<"h", "a", "v", "e">>, "stop"),
             Token(<<"4", "2">>, "num"),
             Token(<<"C", "a", "t">>, "word"),
             Token(<<"!">>, "punct")>>
      [] text = "Go\n\nA" ->
           <<Token(<<"G", "o">>, "word"),
             Token(<<"\n", "\n">>, "word"),
             Token(<<"A">>, "word")>>
      [] text = "" -> <<>>

\* the condition of the comprehension, lines 51-56
Keeps(token, threshold) ==
    /\ ~token.is_stop
    /\ ~token.is_punct
    /\ ~token.like_email
    /\ ~token.like_url
    /\ ~token.like_num
    /\ ~(Len(token.lemma) < threshold)

\* token.lemma_.lower().strip()
Normal(token) == Strip(Lower(token.lemma))

_lemmatize(doc, threshold) ==
    LET kept == SelectSeq(doc, LAMBDA t : Keeps(t, threshold))
    IN [k \in 1..Len(kept) |-> Normal(kept[k])]

\* spacy.util.minibatch: consecutive groups of batch_size items
RECURSIVE Minibatch(_, _)
Minibatch(items, size) ==
    IF items = <<>> THEN <<>>
    ELSE IF Len(items) <= size THEN <<items>>
    ELSE <<SubSeq(items, 1, size)>> \o Minibatch(SubSeq(items, size + 1, Len(items)), size)

\* nlp.pipe hands batch k to worker ((k - 1) mod n_process) + 1
BatchesOf(batches, w, n) ==
    LET mine == {k \in 1..Len(batches) : ((k - 1) % n) + 1 = w}
        Nth[j \in 0..Cardinality(mine)] ==
            IF j = 0 THEN 0
            ELSE CHOOSE k \in mine : k > Nth[j - 1] /\ \A m \in mine : m > Nth[j - 1] => k <= m
    IN [j \in 1..Cardinality(mine) |-> batches[Nth[j]]]

\* A collection that puts the newest docs first.
CollectFront(got, docs, threshold) ==
    [i \in 1..Len(docs) |-> _lemmatize(docs[i], threshold)] \o got

\* the list comprehension of lines 79-87 takes the docs as the iterator
\* yields them
Collect(got, docs, threshold) ==
    got \o [i \in 1..Len(docs) |-> _lemmatize(docs[i], threshold)]

Idle ==
    [active |-> FALSE, threshold |-> 0, n |-> 0, inq |-> <<>>, outq |-> <<>>,
     turn |-> 0, got |-> <<>>]

(***************************************************************************)
(* The files the loaders are tried on.                                     *)
(***************************************************************************)
Sentiment140Rows ==
    {[target |-> 0, text |-> "sad"], [target |-> 4, text |-> "glad"],
     [target |-> 2, text |-> "meh"], [target |-> 3, text |-> "odd"]}

Imdb50kRows ==
    {[review |-> "fine film", sentiment |-> "positive"],
     [review |-> "dull film", sentiment |-> "negative"],
     [review |-> "a film", sentiment |-> "mixed"]}

TestRows ==
    {[text |-> "sad", label |-> 0], [text |-> "meh", label |-> 1],
     [text |-> "glad", label |-> 2], [text |-> "odd", label |-> 3]}

GreatProduct == <<"g", "r", "e", "a", "t", " ", "p", "r", "o", "d", "u", "c", "t">>
Bad == <<"b", "a", "d">>

AmazonLineBodies ==
    {LabelPrefix \o <<"2", " ">> \o GreatProduct,
     LabelPrefix \o <<"1", " ">> \o Bad,
     LabelPrefix \o <<"3", " ">> \o Bad,
     LabelPrefix \o <<"2">>,
     Bad \o <<" ">> \o Bad,
     LabelPrefix \o <<"x", " ">> \o Bad}

\* a line with its terminator, or a last line without one
AmazonLines ==
    {b \o <<"\n">> : b \in AmazonLineBodies}
        \cup {LabelPrefix \o <<"2", " ">> \o GreatProduct, LabelPrefix \o <<"1", " ">> \o Bad}

RecordsFor(p) ==
    CASE p = SENTIMENT140_PATH -> Sentiment140Rows
      [] p = AMAZONREVIEWS_PATH -> AmazonLines
      [] p = IMDB50K_PATH -> Imdb50kRows
      [] p = TEST_DATASET_PATH -> TestRows

\* the lines of an archive: its terminators, and one more for an
\* unterminated last line
LineCount(bytes) ==
    Cardinality({i \in 1..Len(bytes) : bytes[i] = "\n"})
        + (IF bytes # <<>> /\ bytes[Len(bytes)] # "\n" THEN 1 ELSE 0)

RowsIn(d, p) ==
    IF p = AMAZONREVIEWS_PATH THEN LineCount(d[p].data) ELSE Len(d[p].data)

DiskRows(d) ==
    RowsIn(d, SENTIMENT140_PATH) + RowsIn(d, AMAZONREVIEWS_PATH)
        + RowsIn(d, IMDB50K_PATH) + RowsIn(d, TEST_DATASET_PATH)

\* a record can follow what the file holds: a line goes after a terminated one
Appendable(d, p) ==
    p = AMAZONREVIEWS_PATH /\ d[p].data # <<>>
        => d[p].data[Len(d[p].data)] = "\n"

Written(d, p, r) ==
    IF p = AMAZONREVIEWS_PATH THEN d[p].data \o r ELSE Append(d[p].data, r)

Identifiers == {"sentiment140", "amazonreviews", "imdb50k", "test", "twitter"}

NoCall ==
    [fn |-> "", dataset |-> "", include_neutral |-> FALSE, text_data |-> <<>>,
     batch_size |-> 0, n_jobs |-> 0, threshold |-> 0]

(***************************************************************************)
(* Initial state: the interpreter is about to import app.data.             *)
(***************************************************************************)
Init ==
    /\ disk = [p \in Paths |-> [exists |-> FALSE, data |-> <<>>]]
    /\ model \in {"absent", "loadable", "incompatible"}
    /\ pc = "import"
    /\ nlp = None
    /\ loads = 0
    /\ fetches = 0
    /\ call = NoCall
    /\ result = NoResult
    /\ trace = <<>>
    /\ job = Idle

(***************************************************************************)
(* The import of the module.                                               *)
(***************************************************************************)
\* line 28
ImportLoad ==
    /\ pc = "import"
    /\ loads' = loads + 1
    /\ nlp' = IF LoadSucceeds(model) THEN Pipeline ELSE nlp
    /\ pc' = IF LoadSucceeds(model) THEN "ready"
             ELSE IF LoadRaisesOSError(model) THEN AfterFirstLoadFailure
             ELSE AfterFirstLoadError
    /\ UNCHANGED <<disk, model, fetches, call, result, trace, job>>

\* lines 30-34: the download installs the model, which the running process
\* may or may not be able to load, or it fails
ImportDownload ==
    /\ pc = "except"
    /\ fetches' = fetches + 1
    /\ \E outcome \in {"loadable", "broken", "failed"} :
          /\ model' = IF outcome = "failed" THEN model ELSE outcome
          /\ pc' = IF outcome = "failed" THEN AfterDownloadFailure ELSE "reload"
    /\ UNCHANGED <<disk, nlp, loads, call, result, trace, job>>

\* line 35
ImportReload ==
    /\ pc = "reload"
    /\ loads' = loads + 1
    /\ nlp' = IF LoadSucceeds(model) THEN Pipeline ELSE nlp
    /\ pc' = IF LoadSucceeds(model) THEN "ready" ELSE AfterReloadFailure
    /\ UNCHANGED <<disk, model, fetches, call, result, trace, job>>

(***************************************************************************)
(* The dataset files change.  call, result and trace describe the last     *)
(* call made since the files last changed.                                 *)
(***************************************************************************)
WriteRecord(p, r) ==
    /\ ~job.active
    /\ DiskRows(disk) < MaxDiskRows
    /\ Appendable(disk, p)
    /\ disk' = [disk EXCEPT ![p] = [exists |-> TRUE, data |-> Written(disk, p, r)]]
    /\ call' = NoCall /\ result' = NoResult /\ trace' = <<>>
    /\ UNCHANGED <<model, pc, nlp, loads, fetches, job>>

RemoveFile(p) ==
    /\ ~job.active
    /\ disk[p].exists
    /\ disk' = [disk EXCEPT ![p] = [exists |-> FALSE, data |-> <<>>]]
    /\ call' = NoCall /\ result' = NoResult /\ trace' = <<>>
    /\ UNCHANGED <<model, pc, nlp, loads, fetches, job>>

(***************************************************************************)
(* Calls of the loaders: the module has been imported, no call is running. *)
(***************************************************************************)
Called(c, r) ==
    /\ pc = "ready"
    /\ ~job.active
    /\ call' = c
    /\ result' = r.out
    /\ trace' = r.trace
    /\ UNCHANGED <<disk, model, pc, nlp, loads, fetches, job>>

CallLoadData(dataset) ==
    Called([NoCall EXCEPT !.fn = "load_data", !.dataset = dataset],
           load_data(disk, dataset))

CallLoadSentiment140(include_neutral) ==
    Called([NoCall EXCEPT !.fn = "load_sentiment140", !.include_neutral = include_neutral],
           load_sentiment140(disk, include_neutral))

CallLoadAmazonreviews ==
    Called([NoCall EXCEPT !.fn = "load_amazonreviews"], load_amazonreviews(disk))

CallLoadImdb50k ==
    Called([NoCall EXCEPT !.fn = "load_imdb50k"], load_imdb50k(disk))

CallLoadTest(include_neutral) ==
    Called([NoCall EXCEPT !.fn = "load_test", !.include_neutral = include_neutral],
           load_test(disk, include_neutral))

(***************************************************************************)
(* A call of tokenize: nlp.pipe cuts the texts into batches, its workers   *)
(* annotate their batches at their own pace, and the docs are taken from   *)
(* the workers in turn.                                                    *)
(***************************************************************************)
CallTokenize(text_data, batch_size, n_jobs, character_threshold) ==
    /\ pc = "ready"
    /\ ~job.active
    /\ call' = [NoCall EXCEPT !.fn = "tokenize", !.text_data = text_data,
                              !.batch_size = batch_size, !.n_jobs = n_jobs,
                              !.threshold = character_threshold]
    /\ result' = NoResult
    /\ trace' = <<Ev("call", "tokenize")>>
    /\ job' = [active |-> TRUE, threshold |-> character_threshold, n |-> n_jobs,
               inq |-> [w \in 1..n_jobs |->
                          BatchesOf(Minibatch(text_data, batch_size), w, n_jobs)],
               outq |-> [w \in 1..n_jobs |-> <<>>],
               turn |-> 1, got |-> <<>>]
    /\ UNCHANGED <<disk, model, pc, nlp, loads, fetches>>

\* worker w annotates its next batch
WorkerStep(w) ==
    /\ job.active
    /\ job.inq[w] # <<>>
    /\ job' = [job EXCEPT
                 !.inq[w] = Tail(job.inq[w]),
                 !.outq[w] = Append(job.outq[w],
                     [i \in 1..Len(Head(job.inq[w])) |-> Annotate(Head(job.inq[w])[i])])]
    /\ UNCHANGED <<disk, model, pc, nlp, loads, fetches, call, result, trace>>

\* the comprehension takes the next batch of docs from the worker whose turn it is
Receive ==
    /\ job.active
    /\ job.outq[job.turn] # <<>>
    /\ job' = [job EXCEPT
                 !.outq[job.turn] = Tail(job.outq[job.turn]),
                 !.turn = (job.turn % job.n) + 1,
                 !.got = Collect(job.got, Head(job.outq[job.turn]), job.threshold)]
    /\ UNCHANGED <<disk, model, pc, nlp, loads, fetches, call, result, trace>>

\* nlp.pipe is exhausted
TokenizeReturn ==
    /\ job.active
    /\ \A w \in 1..job.n : job.inq[w] = <<>> /\ job.outq[w] = <<>>
    /\ result' = ReturnTokens(job.got)
    /\ job' = Idle
    /\ UNCHANGED <<disk, model, pc, nlp, loads, fetches, call, trace>>

RECURSIVE SeqsUpTo(_, _)
SeqsUpTo(S, n) ==
    IF n = 0 THEN {<<>>}
    ELSE SeqsUpTo(S, n - 1) \cup {Append(s, x) : s \in SeqsUpTo(S, n - 1), x \in S}

(***************************************************************************)
(* Specifications.                                                         *)
(***************************************************************************)
Import == ImportLoad \/ ImportDownload \/ ImportReload

LoaderNext ==
    \/ Import
    \/ \E p \in Paths : \E r \in RecordsFor(p) : WriteRecord(p, r)
    \/ \E p \in Paths : RemoveFile(p)
    \/ \E dataset \in Identifiers : CallLoadData(dataset)
    \/ \E include_neutral \in BOOLEAN : CallLoadSentiment140(include_neutral)
    \/ CallLoadAmazonreviews
    \/ CallLoadImdb50k
    \/ \E include_neutral \in BOOLEAN : CallLoadTest(include_neutral)

TokenizerNext ==
    \/ Import
    \/ \E text_data \in SeqsUpTo(TextPool, MaxDocs) :
         \E batch_size \in 1..MaxBatch, n_jobs \in 1..MaxJobs,
            character_threshold \in Thresholds :
              CallTokenize(text_data, batch_size, n_jobs, character_threshold)
    \/ \E w \in 1..MaxJobs : w <= job.n /\ WorkerStep(w)
    \/ Receive
    \/ TokenizeReturn

LoaderSpec == Init /\ [][LoaderNext]_vars

TokenizerSpec == Init /\ [][TokenizerNext]_vars

(***************************************************************************)
(* What the properties speak of.                                           *)
(***************************************************************************)
Supported == {"sentiment140", "amazonreviews", "imdb50k", "test"}

\* the dataset the last call loaded, "" if it loaded none
Target ==
    CASE call.fn = "load_data" /\ call.dataset \in Supported -> call.dataset
      [] call.fn = "load_sentiment140" -> "sentiment140"
      [] call.fn = "load_amazonreviews" -> "amazonreviews"
      [] call.fn = "load_imdb50k" -> "imdb50k"
      [] call.fn = "load_test" -> "test"
      [] OTHER -> ""

PathOf(ds) ==
    CASE ds = "sentiment140" -> SENTIMENT140_PATH
      [] ds = "amazonreviews" -> AMAZONREVIEWS_PATH
      [] ds = "imdb50k" -> IMDB50K_PATH
      [] ds = "test" -> TEST_DATASET_PATH

UrlOf(ds) ==
    CASE ds = "sentiment140" -> SENTIMENT140_URL
      [] ds = "amazonreviews" -> AMAZONREVIEWS_URL
      [] ds = "imdb50k" -> IMDB50K_URL
      [] ds = "test" -> TEST_DATASET_URL

Loaded == Target # "" /\ result.kind = "return"

Range(seq) == {seq[i] : i \in 1..Len(seq)}

\* a line "__label__N text" with one digit N, and the parts of such a line
LabelledLine(line) ==
    /\ Len(line) >= Len(LabelPrefix) + 2
    /\ StartsAt(line, LabelPrefix, 1)
    /\ line[Len(LabelPrefix) + 1] \in Digits
    /\ line[Len(LabelPrefix) + 2] = " "

LineNumber(line) == DigitValue(line[Len(LabelPrefix) + 1])

LineRest(line) == SubSeq(line, Len(LabelPrefix) + 3, Len(line))

ReviewText(line) ==
    IF LineRest(line) # <<>> /\ LineRest(line)[Len(LineRest(line))] = "\n"
    THEN SubSeq(LineRest(line), 1, Len(LineRest(line)) - 1)
    ELSE LineRest(line)

\* the raw label values a well-formed file of the dataset holds
ExpectedRaw(ds) ==
    CASE ds = "sentiment140" -> {0, 2, 4}
      [] ds = "amazonreviews" -> {1, 2}
      [] ds = "imdb50k" -> {"positive", "negative"}
      [] ds = "test" -> {0, 1, 2}

\* the raw label values of the records of the dataset's file; a line of
\* amazonreviews that is no "__label__N text" counts as the value -1
RawLabels(ds) ==
    CASE ds = "sentiment140" -> Column(disk[SENTIMENT140_PATH].data, "target")
      [] ds = "imdb50k" -> Column(disk[IMDB50K_PATH].data, "sentiment")
      [] ds = "test" -> Column(disk[TEST_DATASET_PATH].data, "label")
      [] ds = "amazonreviews" ->
           [i \in 1..Len(FileLines(disk[AMAZONREVIEWS_PATH].data)) |->
              IF LabelledLine(FileLines(disk[AMAZONREVIEWS_PATH].data)[i])
              THEN LineNumber(FileLines(disk[AMAZONREVIEWS_PATH].data)[i])
              ELSE 0 - 1]

WellFormed(ds) ==
    /\ disk[PathOf(ds)].exists
    /\ RawLabels(ds) # <<>>
    /\ Range(RawLabels(ds)) \subseteq ExpectedRaw(ds)

\* the canonical label of a raw value that is negative or positive
Binary(ds, raw) ==
    CASE ds = "sentiment140" -> IF raw = 4 THEN 1 ELSE 0
      [] ds = "amazonreviews" -> raw - 1
      [] ds = "imdb50k" -> IF raw = "positive" THEN 1 ELSE 0
      [] ds = "test" -> IF raw = 2 THEN 1 ELSE 0

IsNeutralRaw(ds, raw) ==
    \/ ds = "sentiment140" /\ raw = 2
    \/ ds = "test" /\ raw = 1

Indices(seq, Test(_)) == SelectSeq([i \in 1..Len(seq) |-> i], LAMBDA i : Test(seq[i]))

At(seq, idx) == [k \in 1..Len(idx) |-> seq[idx[k]]]

Increasing(n, m) == {f \in [1..n -> 1..m] : \A i, j \in 1..n : i < j => f[i] < f[j]}

(***************************************************************************)
(* C1: load_data on a present, well-formed file of any of the four         *)
(* datasets returns only the labels 0 and 1, 0 for a negative record and   *)
(* 1 for a positive one, whichever dataset was loaded.                     *)
(***************************************************************************)
C1_BinaryLabels ==
    (call.fn = "load_data" /\ Loaded /\ WellFormed(Target)) =>
        LET kept == Indices(RawLabels(Target), LAMBDA raw : ~IsNeutralRaw(Target, raw))
        IN result.labels =
              [k \in 1..Len(kept) |-> PyInt(Binary(Target, RawLabels(Target)[kept[k]]))]

TextOf(ds, rec) ==
    CASE ds = "sentiment140" -> rec["text"]
      [] ds = "imdb50k" -> rec["review"]
      [] ds = "test" -> rec["text"]
      [] ds = "amazonreviews" -> LineRest(rec)

RecordsOf(ds) ==
    IF ds = "amazonreviews" THEN FileLines(disk[AMAZONREVIEWS_PATH].data)
    ELSE disk[PathOf(ds)].data

\* label is what the dataset's mapping makes of raw
LabelFrom(ds, raw, label) ==
    CASE ds = "sentiment140" ->
           IF raw \in {0, 2, 4} THEN label.t # "nan" /\ label.v = (IF raw = 4 THEN 1 ELSE raw)
           ELSE label = NaN
      [] ds = "imdb50k" ->
           IF raw \in {"positive", "negative"}
           THEN label.t # "nan" /\ label.v = (IF raw = "positive" THEN 1 ELSE 0)
           ELSE label = NaN
      [] ds = "test" ->
           IF raw \in {0, 1, 2} THEN label.t # "nan" /\ label.v = raw ELSE label = NaN
      [] ds = "amazonreviews" -> label = PyInt(raw - 1)

Drops(ds) == ds \in {"sentiment140", "test"} /\ ~(call.fn # "load_data" /\ call.include_neutral)

(***************************************************************************)
(* C2: the texts and labels a loader returns have the same length, and     *)
(* texts[i], labels[i] come from one record of the file, the records in    *)
(* the order of the file.                                                  *)
(***************************************************************************)
C2_Aligned ==
    Loaded =>
        /\ Len(result.texts) = Len(result.labels)
        /\ \E f \in Increasing(Len(result.texts), Len(RecordsOf(Target))) :
              \A i \in 1..Len(result.texts) :
                 /\ result.texts[i] = TextOf(Target, RecordsOf(Target)[f[i]])
                 /\ LabelFrom(Target, RawLabels(Target)[f[i]], result.labels[i])
        /\ ~Drops(Target) => Len(result.texts) = Len(RecordsOf(Target))

C2_Witness ==
    /\ Loaded
    /\ Drops(Target)
    /\ Len(RecordsOf(Target)) = 2
    /\ IsNeutralRaw(Target, RawLabels(Target)[1])
    /\ Len(result.texts) = 1

Canonical(ds) == IF ds \in {"sentiment140", "test"} THEN {0, 1, 2} ELSE {0, 1}

(***************************************************************************)
(* C3: a raw label outside the dataset's expected set makes the load fail  *)
(* with an error, and no returned label is outside the canonical set or    *)
(* not an integer.                                                         *)
(***************************************************************************)
C3_ExplicitFailure ==
    /\ (Target # "" /\ result.kind # "none" /\ disk[PathOf(Target)].exists
            /\ ~(Range(RawLabels(Target)) \subseteq ExpectedRaw(Target)))
          => result.kind = "raise"
    /\ Loaded =>
          \A i \in 1..Len(result.labels) :
              result.labels[i].t = "int" /\ result.labels[i].v \in Canonical(Target)

NeutralLabel(ds) == IF ds = "sentiment140" THEN 2 ELSE 1

IsNeutralLabel(ds, label) == label.t # "nan" /\ label.v = NeutralLabel(ds)

NoNeutralReturned ==
    (Loaded /\ Drops(Target)) =>
        \A i \in 1..Len(result.labels) : ~IsNeutralLabel(Target, result.labels[i])

\* a call of one of the two loaders follows a call of the same loader with
\* the other include_neutral, on the same files
NeutralPair ==
    /\ call.fn \in {"load_sentiment140", "load_test"}
    /\ call'.fn = call.fn
    /\ call'.include_neutral # call.include_neutral
    /\ result.kind = "return" /\ result'.kind = "return"
    /\ disk' = disk

NeutralPairAgrees ==
    NeutralPair =>
        LET with == IF call.include_neutral THEN result ELSE result'
            without == IF call.include_neutral THEN result' ELSE result
            ds == IF call.fn = "load_test" THEN "test" ELSE "sentiment140"
            kept == Indices(with.labels, LAMBDA label : ~IsNeutralLabel(ds, label))
        IN /\ Len(with.texts) >= Len(without.texts)
           /\ without.texts = At(with.texts, kept)
           /\ without.labels = At(with.labels, kept)

(***************************************************************************)
(* C4: load_sentiment140 and load_test called with include_neutral false   *)
(* return no neutral label; on the same file, the call with                *)
(* include_neutral true returns at least as many rows, and its non-neutral *)
(* rows are the rows of the other call, in the same order.                 *)
(***************************************************************************)
C4_NeutralFilter == [](NoNeutralReturned) /\ [][NeutralPairAgrees]_vars

C4_Witness ==
    /\ call.fn \in {"load_sentiment140", "load_test"}
    /\ ~call.include_neutral
    /\ Loaded
    /\ \E i \in 1..Len(RawLabels(Target)) : IsNeutralRaw(Target, RawLabels(Target)[i])
    /\ Len(result.texts) = 1

FileEvents == SelectSeq(trace, LAMBDA e : e[1] # "call")

(***************************************************************************)
(* C5: every loader checks first that its file exists; when the file is    *)
(* absent the call raises an error whose message holds the expected path   *)
(* and the dataset's URL, nothing has been read, and no texts or labels    *)
(* are returned.                                                           *)
(***************************************************************************)
C5_MissingFile ==
    (Target # "" /\ result.kind # "none") =>
        /\ FileEvents # <<>>
        /\ FileEvents[1] = Ev("exists", PathOf(Target))
        /\ ~disk[PathOf(Target)].exists =>
              /\ result.kind = "raise"
              /\ result.exc = "FileNotFoundError"
              /\ PathOf(Target) \in Range(result.msg)
              /\ UrlOf(Target) \in Range(result.msg)
              /\ FileEvents = <<Ev("exists", PathOf(Target))>>
              /\ result.texts = <<>> /\ result.labels = <<>>

C5_Witness ==
    /\ call.fn = "load_amazonreviews"
    /\ ~disk[AMAZONREVIEWS_PATH].exists
    /\ disk[IMDB50K_PATH].exists
    /\ result.kind = "raise"

(***************************************************************************)
(* C6: load_data with an identifier outside the four supported ones raises *)
(* an error whose message names the identifier; no loader is entered and   *)
(* no file is checked or read.                                             *)
(***************************************************************************)
C6_UnknownIdentifier ==
    (call.fn = "load_data" /\ call.dataset \notin Supported) =>
        /\ result.kind = "raise"
        /\ result.exc = "ValueError"
        /\ call.dataset \in Range(result.msg)
        /\ trace = <<Ev("call", "load_data")>>

C6_Witness ==
    /\ call.fn = "load_data"
    /\ call.dataset = "twitter"
    /\ disk[TEST_DATASET_PATH].exists
    /\ result.kind = "raise"

(***************************************************************************)
(* C7: for every line "__label__N text" of the file, load_amazonreviews    *)
(* returns the label N - 1 and the text with the prefix and its space      *)
(* stripped and nothing else, such as the line terminator, left in it.     *)
(***************************************************************************)
C7_AmazonLine ==
    (Target = "amazonreviews" /\ Loaded) =>
        /\ Len(result.texts) = Len(RecordsOf(Target))
        /\ \A i \in 1..Len(result.texts) :
              LabelledLine(RecordsOf(Target)[i]) =>
                  /\ result.labels[i] = PyInt(LineNumber(RecordsOf(Target)[i]) - 1)
                  /\ result.texts[i] = ReviewText(RecordsOf(Target)[i])

Tokenized == call.fn = "tokenize" /\ result.kind = "return"

Survives(token, threshold) ==
    /\ ~token.is_stop /\ ~token.is_punct
    /\ ~token.like_email /\ ~token.like_url /\ ~token.like_num
    /\ Len(Strip(Lower(token.lemma))) >= threshold

(***************************************************************************)
(* C8: tokenize emits a token if and only if it is no stop word, no        *)
(* punctuation, not like an email, a URL or a number, and its lemma,       *)
(* lowercased and trimmed, has at least character_threshold characters; so *)
(* every string emitted is a lowercased, trimmed lemma of at least that    *)
(* length.                                                                 *)
(***************************************************************************)
C8_FilterAfterTrim ==
    Tokenized =>
        \A i \in 1..Len(result.tokens) :
            LET doc == Annotate(call.text_data[i])
                kept == Indices(doc, LAMBDA t : Survives(t, call.threshold))
            IN /\ result.tokens[i] = [k \in 1..Len(kept) |-> Strip(Lower(doc[kept[k]].lemma))]
               /\ \A k \in 1..Len(result.tokens[i]) :
                     Len(result.tokens[i][k]) >= call.threshold

(***************************************************************************)
(* C9: whatever batch_size and n_jobs, tokenize returns one token list per *)
(* text, the i-th from the i-th text, the tokens of a text in the order    *)
(* they have in the text; no texts give no token lists.                    *)
(***************************************************************************)
C9_OrderPreserved ==
    Tokenized =>
        /\ Len(result.tokens) = Len(call.text_data)
        /\ \A i \in 1..Len(result.tokens) :
              LET doc == Annotate(call.text_data[i])
              IN /\ result.tokens[i] = _lemmatize(doc, call.threshold)
                 /\ \E f \in Increasing(Len(result.tokens[i]), Len(doc)) :
                       \A k \in 1..Len(result.tokens[i]) :
                           result.tokens[i][k] = Strip(Lower(doc[f[k]].lemma))

C9_Witness ==
    /\ Tokenized
    /\ call.n_jobs = 2 /\ call.batch_size = 1
    /\ Len(call.text_data) = 2
    /\ Len(result.tokens[1]) = 2
    /\ Len(result.tokens[2]) = 0

PipelineBuilt ==
    /\ fetches <= 1
    /\ loads <= fetches + 1
    /\ (pc = "ready" => nlp = Pipeline)
    /\ (pc # "ready" => nlp = None /\ call.fn # "tokenize" /\ ~job.active)
    /\ (call.fn = "tokenize" => nlp = Pipeline)

PipelineStep ==
    /\ (pc = "import" /\ LoadSucceeds(model)) => (pc' = "ready" /\ fetches' = 0)
    /\ (pc = "reload" /\ ~LoadSucceeds(model)) => pc' = "failed"
    /\ pc = "failed" => UNCHANGED <<pc, nlp, loads, fetches, model, call, job>>
    /\ pc = "ready" => UNCHANGED <<pc, nlp, loads, fetches, model>>

(***************************************************************************)
(* C10: the pipeline is built once, during the import, before tokenize can *)
(* be called, and stays as built.  A model that is present is loaded and   *)
(* nothing is fetched; an absent model is fetched at most once and then    *)
(* loaded; when the load that follows the fetch fails the import fails,    *)
(* with no further fetch or load, and tokenize is not called.              *)
(***************************************************************************)
C10_PipelineOnce == [](PipelineBuilt) /\ [][PipelineStep]_vars

C10_Witness ==
    /\ Tokenized
    /\ fetches = 1
    /\ loads = 2
    /\ result.tokens # <<>>

====
